---------------------------- MODULE Spec2Model ----------------------------
(***************************************************************************)
(* Model of the ConnectLife standalone client: the OAuth2 token lifecycle  *)
(* (standalone_connectlife/oauth.py), the signed request transport and the *)
(* device client (standalone_connectlife/api.py) and the status codec      *)
(* (standalone_connectlife/device_parsers/base.py).                        *)
(*                                                                         *)
(* The client runs on one asyncio event loop: a coroutine runs without     *)
(* interruption up to the next suspending await (an HTTP call).  Every     *)
(* action below is one such run-to-suspension segment of a Python          *)
(* coroutine.  Python dicts are functions from string keys to integers.    *)
(***************************************************************************)
EXTENDS Integers, Sequences, FiniteSets, TLC

VARIABLES
    now,        \* time.time(), in seconds
    token,      \* OAuth2Session.token (the in-memory token record, a dict)
    storage,    \* the token file of TokenStorage: [state, rec]
    proc,       \* "running", or "crashed" once the process was killed
    source_id,  \* ConnectLifeApiClient._source_id (0 is None)
    task,       \* the coroutines of the callers: task[t] is t's frame
    recvAt,     \* the time at which the in-memory record's expires_in was received
    devices,    \* ConnectLifeApiClient._devices and .parsers, by device id
    codec,      \* the call of the status codec or of the registry under study
    disc        \* the frame of the coroutine that runs async_get_devices

vars == <<now, token, storage, proc, source_id, task, recvAt, devices, codec, disc>>

\* The state of the device client and of the codec, which the token manager
\* and the transport do not touch
clientVars == <<devices, codec, disc>>

(***************************************************************************)
(* Bounds of the model.                                                    *)
(***************************************************************************)
MaxTicks == 2

\* The callers: two coroutines, which is what it takes for two calls to
\* overlap.
Tasks == {1, 2}

\* _is_token_expired refreshes this many seconds before the expiry.
RefreshMargin == 300

\* The clock: the session is constructed at StartTime and the clock moves in
\* steps of TickLen seconds.
TickLen == RefreshMargin \div 3
StartTime == 10 * TickLen
Times == {StartTime + TickLen * i : i \in 0..MaxTicks}

(***************************************************************************)
(* Python dicts.                                                           *)
(***************************************************************************)
EmptyDict == [k \in {} |-> 0]

Has(d, k) == k \in DOMAIN d

\* dict.get(k, default)
Get(d, k, default) == IF k \in DOMAIN d THEN d[k] ELSE default

\* d.update(e): the entries of e replace and extend those of d
Update(d, e) == [k \in DOMAIN d \cup DOMAIN e |-> IF k \in DOMAIN e THEN e[k] ELSE d[k]]

Put(d, k, v) == Update(d, [x \in {k} |-> v])

(***************************************************************************)
(* TokenStorage: the token file.                                           *)
(***************************************************************************)
AbsentFile == [state |-> "absent", rec |-> EmptyDict]
PartialFile == [state |-> "partial", rec |-> EmptyDict]
CompleteFile(rec) == [state |-> "complete", rec |-> rec]

\* What can happen to one call of TokenStorage.save: the write succeeds; mkdir
\* or open raises OSError before the file is touched (the except clause logs
\* it); or the process is killed after open(path, "w") truncated the file and
\* before json.dump completed.
SaveOutcomes == {"ok", "oserror", "crash"}

\* TokenStorage.load: json.load of an existing file; a missing file and a file
\* that does not parse both give None, which the constructor turns into {}.
StorageLoad(sto) == IF sto.state = "complete" THEN sto.rec ELSE EmptyDict

\* TokenStorage.save: open(path, "w") truncates the file in place, json.dump
\* then writes the record into the same file.
StorageSave(sto, rec, outcome) ==
    CASE outcome = "ok" -> CompleteFile(rec)
      [] outcome = "oserror" -> sto
      [] outcome = "crash" -> PartialFile

\* What can happen to one call of TokenStorage.clear: the file is unlinked (or
\* was not there), or unlink raises OSError, which the except clause logs.
ClearOutcomes == {"ok", "oserror"}

\* TokenStorage.clear
StorageClear(sto, outcome) ==
    IF sto.state # "absent" /\ outcome = "ok" THEN AbsentFile ELSE sto

(***************************************************************************)
(* The token endpoint's answers.  json is whether the body parses as JSON  *)
(* (resp.json() raises otherwise), status the HTTP status, body the JSON   *)
(* object.  Access token 2 and refresh token 2 are the newly issued ones.  *)
(***************************************************************************)
ExpiresIn == RefreshMargin + TickLen

GrantFull == [json |-> TRUE, status |-> 200,
              body |-> [access_token |-> 2, refresh_token |-> 2, expires_in |-> ExpiresIn]]
GrantNoExpiry == [json |-> TRUE, status |-> 200, body |-> [access_token |-> 2]]
GrantOAuthError == [json |-> TRUE, status |-> 401, body |-> [error |-> 1]]
GrantResultCode == [json |-> TRUE, status |-> 200,
                    body |-> [resultCode |-> 1, access_token |-> 2]]
GrantHttp500 == [json |-> TRUE, status |-> 500, body |-> [access_token |-> 2]]
GrantNoAccessToken == [json |-> TRUE, status |-> 200, body |-> [refresh_token |-> 2]]
GrantNotJson == [json |-> FALSE, status |-> 500, body |-> EmptyDict]
NoResponse == [json |-> FALSE, status |-> 0, body |-> EmptyDict]

TokenResponses == {GrantFull, GrantNoExpiry, GrantOAuthError, GrantResultCode,
                   GrantHttp500, GrantNoAccessToken, GrantNotJson}

(***************************************************************************)
(* OAuth2Session.                                                          *)
(***************************************************************************)
\* _is_token_expired: the verdict, and the record as the call leaves it (the
\* call stores expires_at when the record has expires_in only).
IsTokenExpired(tok, t) ==
    LET expires_at == Get(tok, "expires_at", 0) IN
    IF expires_at = 0
    THEN LET expires_in == Get(tok, "expires_in", 0) IN
         IF expires_in # 0
         THEN [expired |-> FALSE, tok |-> Put(tok, "expires_at", t + expires_in)]
         ELSE [expired |-> TRUE, tok |-> tok]
    ELSE [expired |-> t >= expires_at - RefreshMargin, tok |-> tok]

\* _token_request, from the response on: the exception it raises ("none" when
\* it returns) and the record it returns.
TokenRequest(resp, t) ==
    LET response == resp.body IN
    IF ~resp.json
    THEN [raised |-> "ClientError", response |-> EmptyDict]
    ELSE IF Has(response, "error")
    THEN [raised |-> "AuthenticationError", response |-> EmptyDict]
    ELSE IF Get(response, "resultCode", 0) # 0
    THEN [raised |-> "AuthenticationError", response |-> EmptyDict]
    ELSE IF resp.status # 200
    THEN [raised |-> "AuthenticationError", response |-> EmptyDict]
    ELSE IF ~Has(response, "access_token")
    THEN [raised |-> "AuthenticationError", response |-> EmptyDict]
    ELSE [raised |-> "none",
          response |-> IF Has(response, "expires_in") /\ ~Has(response, "expires_at")
                       THEN Put(response, "expires_at", t + response["expires_in"])
                       ELSE response]

\* The two TokenError that async_ensure_token_valid raises: at line 90, and at
\* line 101 for whatever the refresh raised.
NoTokenError == "TokenError: No token available"
RefreshError == "TokenError: Failed to refresh token"
IsTokenError(e) == e \in {NoTokenError, RefreshError}

\* async_ensure_token_valid up to its first await: it raises TokenError (no
\* record, or _refresh_token finds no refresh token), returns, or suspends in
\* the POST of the refresh-token grant.
EnsureBegin(tok, t) ==
    IF DOMAIN tok = {}
    THEN [outcome |-> "raise", raised |-> NoTokenError, tok |-> tok]
    ELSE LET chk == IsTokenExpired(tok, t) IN
         IF ~chk.expired
         THEN [outcome |-> "return", raised |-> "none", tok |-> chk.tok]
         ELSE IF Get(chk.tok, "refresh_token", 0) = 0
         THEN [outcome |-> "raise", raised |-> RefreshError, tok |-> chk.tok]
         ELSE [outcome |-> "await", raised |-> "none", tok |-> chk.tok]

\* EnsureResume with the slip of dropping the record the endpoint refused
EnsureResumeDropsRecord(tok, sto, resp, saved, t) ==
    LET token_data == TokenRequest(resp, t) IN
    IF token_data.raised = "none"
    THEN LET merged == Update(tok, token_data.response) IN
         [outcome |-> IF saved = "crash" THEN "crash" ELSE "return",
          raised |-> "none", tok |-> merged, sto |-> StorageSave(sto, merged, saved)]
    ELSE [outcome |-> "raise", raised |-> RefreshError, tok |-> EmptyDict, sto |-> sto]

\* async_ensure_token_valid from the token endpoint's answer on: the response
\* is merged into the record and the record is saved; any exception of the
\* grant becomes TokenError.
EnsureResume(tok, sto, resp, saved, t) ==
    LET token_data == TokenRequest(resp, t) IN
    IF token_data.raised = "none"
    THEN LET merged == Update(tok, token_data.response) IN
         [outcome |-> IF saved = "crash" THEN "crash" ELSE "return",
          raised |-> "none", tok |-> merged, sto |-> StorageSave(sto, merged, saved)]
    ELSE [outcome |-> "raise", raised |-> RefreshError, tok |-> tok, sto |-> sto]

\* exchange_code and login_with_password from the token endpoint's answer on:
\* the response replaces the record and is saved.  exchange_code lets every
\* exception through; login_with_password re-raises AuthenticationError.
GrantResume(tok, sto, resp, saved, t) ==
    LET granted == TokenRequest(resp, t) IN
    IF granted.raised = "none"
    THEN [outcome |-> IF saved = "crash" THEN "crash" ELSE "return",
          raised |-> "none", tok |-> granted.response,
          sto |-> StorageSave(sto, granted.response, saved)]
    ELSE [outcome |-> "raise", raised |-> granted.raised, tok |-> tok, sto |-> sto]

(***************************************************************************)
(* The status codec.  A Python value is [ty, n]: the int n, the float n.0, *)
(* the string "n" of the decimal digits of n ("str"), a string that is no  *)
(* number ("text") or None.  The key "n" of a value map is the integer n.  *)
(***************************************************************************)
PyInt(n) == [ty |-> "int", n |-> n]
PyFloat(n) == [ty |-> "float", n |-> n]
PyStr(n) == [ty |-> "str", n |-> n]
PyText == [ty |-> "text", n |-> 0]
PyNone == [ty |-> "none", n |-> 0]
\* an int beyond the range of a float, such as 10**400
PyHuge == [ty |-> "huge", n |-> 0]
\* a label of a value map, such as "Cool"
PyLabel(text) == [ty |-> "label", n |-> 0, text |-> text]

\* float(value) raises ValueError for a string that is no number and TypeError
\* for None
FloatRaises(value) == value.ty \in {"text", "none", "label"}
\* float(value) raises OverflowError for an int that no float can hold
FloatOverflows(value) == value.ty = "huge"
FloatOf(value) == value.n

\* str(value) \in value_map.keys(): the keys are strings of decimal digits, and
\* str() of a float ("1.0"), of None and of other text is none of them
StrIsKeyOf(value, value_map) ==
    /\ value.ty \in {"int", "str"}
    /\ value.n \in DOMAIN value_map

\* A DeviceAttribute (its key, display name and step are not read by the
\* codec): value_range is the list of the comma separated segments, <<lo, hi>>
\* for "lo~hi" and <<v>> for the literal "v"; <<>> is None.
Attribute(attr_type, value_range, value_map, read_write) ==
    [attr_type |-> attr_type, value_range |-> value_range,
     value_map |-> value_map, read_write |-> read_write]

OffOn == (0 :> "Off") @@ (1 :> "On")
NoMap == [k \in {} |-> ""]

\* BaseBeanParser.attributes
BaseBeanAttributes ==
    [t_work_mode |-> Attribute("Enum", <<<<0>>, <<1>>, <<2>>, <<3>>, <<4>>, <<5>>>>,
                        (0 :> "Fan") @@ (1 :> "Heat") @@ (2 :> "Cool") @@ (3 :> "Dry")
                        @@ (4 :> "Auto") @@ (5 :> "E-star"), "RW"),
     t_power |-> Attribute("Enum", <<<<0>>, <<1>>>>, OffOn, "RW"),
     t_temp |-> Attribute("Number", <<<<16, 32>>, <<61, 90>>>>, NoMap, "RW"),
     t_fan_speed |-> Attribute("Enum", <<<<0>>, <<5>>, <<6>>, <<7>>, <<8>>, <<9>>>>,
                        (2 :> "Low") @@ (3 :> "Medium") @@ (4 :> "High") @@ (0 :> "Auto")
                        @@ (5 :> "Low") @@ (6 :> "Mid-Low") @@ (7 :> "Mid")
                        @@ (8 :> "Mid-High") @@ (9 :> "High"), "RW"),
     t_up_down |-> Attribute("Enum", <<<<0>>, <<1>>>>, OffOn, "RW"),
     t_temp_type |-> Attribute("Enum", <<<<0>>, <<1>>>>,
                        (0 :> "Celsius") @@ (1 :> "Fahrenheit"), "RW"),
     t_left_right |-> Attribute("Enum", <<<<0>>, <<1>>>>, OffOn, "RW"),
     f_power_consumption |-> Attribute("Number", <<>>, NoMap, "R"),
     t_fan_mute |-> Attribute("Enum", <<<<0>>, <<1>>>>, OffOn, "RW"),
     f_temp_in |-> Attribute("Number", <<>>, NoMap, "R"),
     t_8heat |-> Attribute("Enum", <<<<0>>, <<1>>>>, OffOn, "RW"),
     t_eco |-> Attribute("Enum", <<<<0>>, <<1>>>>, OffOn, "RW"),
     t_humidity |-> Attribute("Number", <<<<30, 80>>>>, NoMap, "RW"),
     f_humidity |-> Attribute("Number", <<<<30, 90>>>>, NoMap, "R"),
     t_super |-> Attribute("Enum", <<<<0>>, <<1>>>>, OffOn, "RW")]

\* Dehumidifier007Parser.attributes
Dehumidifier007Attributes ==
    [t_power |-> Attribute("Enum", <<<<0>>, <<1>>>>, OffOn, "RW"),
     t_work_mode |-> Attribute("Enum", <<<<0>>, <<1>>, <<2>>, <<3>>>>,
                        (0 :> "Manual") @@ (1 :> "Continuous") @@ (2 :> "Auto")
                        @@ (3 :> "Dry Clothes"), "RW"),
     t_humidity |-> Attribute("Number", <<<<30, 80>>>>, NoMap, "RW"),
     f_humidity |-> Attribute("Number", <<<<30, 90>>>>, NoMap, "R"),
     t_fan_speed |-> Attribute("Enum", <<<<0>>, <<1>>, <<2>>, <<3>>>>,
                        (0 :> "Auto") @@ (1 :> "High") @@ (2 :> "Medium")
                        @@ (3 :> "Low"), "RW"),
     f_power_consumption |-> Attribute("Number", <<>>, NoMap, "R"),
     t_child_lock |-> Attribute("Enum", <<<<0>>, <<1>>>>, OffOn, "RW"),
     f_water_full |-> Attribute("Enum", <<<<0>>, <<1>>>>, (0 :> "No") @@ (1 :> "Yes"), "R")]

\* Oven013Parser.attributes: the status and the duration of the first timer
Oven013TimerAttributes ==
    [Sand_timer_1_status |->
        Attribute("Enum", <<<<0>>, <<1>>, <<2>>, <<3>>, <<4>>, <<5>>, <<6>>, <<7>>>>,
                  (0 :> "Inactive") @@ (1 :> "Running") @@ (2 :> "Paused")
                  @@ (5 :> "Elapsed") @@ (7 :> "Finished"), "RW"),
     Sand_timer_1_duration_minutes |->
        Attribute("Number", <<<<0, 255>>>>, NoMap, "RW")]

\* The schemas under study, by the name of the parser class
Schemas ==
    [BaseBeanParser |-> BaseBeanAttributes, Oven013Parser |-> Oven013TimerAttributes]

\* The keys a caller passes: those of the schema and one that no schema has
UnknownKey == "zzz"
SchemaKeys(name) == DOMAIN Schemas[name] \union {UnknownKey}

\* The numbers the values are drawn from: the enum codes, and the ends, the
\* inside and the outside of the intervals of "16~32,61~90"
ProbeNumbers == {0, 1, 2, 3, 5, 15, 16, 20, 32, 33, 60, 61, 75, 90, 91, 95}

\* The values a caller passes
ProbeValues ==
    {PyInt(n) : n \in ProbeNumbers} \union {PyFloat(n) : n \in ProbeNumbers}
    \union {PyStr(n) : n \in ProbeNumbers} \union {PyText, PyNone, PyHuge}

\* RangeAccepts with the ends of an interval left out
RECURSIVE RangeAcceptsInside(_, _)
RangeAcceptsInside(ranges, num_value) ==
    IF ranges = <<>>
    THEN FALSE
    ELSE LET r == Head(ranges) IN
         IF Len(r) = 2
         THEN IF r[1] < num_value /\ num_value < r[2]
              THEN TRUE
              ELSE RangeAcceptsInside(Tail(ranges), num_value)
         ELSE IF num_value = r[1]
              THEN TRUE
              ELSE RangeAcceptsInside(Tail(ranges), num_value)

\* The loop of validate_value over the segments of the range, in order
RECURSIVE RangeAccepts(_, _)
RangeAccepts(ranges, num_value) ==
    IF ranges = <<>>
    THEN FALSE
    ELSE LET r == Head(ranges) IN
         IF Len(r) = 2
         THEN IF r[1] <= num_value /\ num_value <= r[2]
              THEN TRUE
              ELSE RangeAccepts(Tail(ranges), num_value)
         ELSE IF num_value = r[1]
              THEN TRUE
              ELSE RangeAccepts(Tail(ranges), num_value)

\* BaseDeviceParser.validate_value: "True", "False", or the exception that
\* leaves it.  The except clause of the range check catches ValueError and
\* TypeError only.
ValidateOutcome(attributes, key, value) ==
    IF key \notin DOMAIN attributes
    THEN "False"
    ELSE LET attr == attributes[key] IN
         IF attr.read_write = "R"
         THEN "False"
         ELSE IF attr.value_range # <<>>
         THEN IF FloatRaises(value)
              THEN "False"
              ELSE IF FloatOverflows(value)
              THEN "OverflowError"
              ELSE IF RangeAccepts(attr.value_range, FloatOf(value))
              THEN "True"
              ELSE "False"
         ELSE IF DOMAIN attr.value_map # {}
         THEN IF StrIsKeyOf(value, attr.value_map) THEN "True" ELSE "False"
         ELSE "True"

\* Whether validate_value returns True
ValidateValue(attributes, key, value) == ValidateOutcome(attributes, key, value) = "True"

(***************************************************************************)
(* The frames of the callers' coroutines.                                  *)
(***************************************************************************)
\* An HTTP request as the transport sends it: the query string and the JSON
\* body as dicts, the dict the Digest header is computed over, the accessToken
\* header (0: none) and, for the nested "properties" of a control command, the
\* property map.
NoRequest == [method |-> "", endpoint |-> "", query |-> EmptyDict, body |-> EmptyDict,
              digested |-> EmptyDict, accessTokenHeader |-> 0, properties |-> EmptyDict]

\* A frame: the operation op in progress ("none": no call), where it is
\* suspended (pc), which of the three async_ensure_token_valid calls of
\* _api_request is in progress (stage), the arguments (method, endpoint,
\* properties), the system parameters once built (params), the request once
\* sent (sent), the status of the HTTP response it got last (status), the
\* exception the last async_ensure_token_valid raised in it (evErr), the
\* vendor's answer to the request (answer), the exception the operation raised
\* to its caller (err) and the dict it returned to its caller (result).
NoAnswer == [net |-> FALSE, status |-> 0, json |-> "", body |-> EmptyDict, kvMap |-> EmptyDict]
NoResult == [success |-> FALSE, status |-> EmptyDict]

\* ConnectLifeApiClient.__init__: no device is cached; and no codec call
NoDevices == [d \in {} |-> 0]
NoCall == [op |-> "none"]

\* An entry of the vendor's deviceList: whether it is a JSON object, and its
\* deviceId (0: none), deviceTypeCode, deviceFeatureCode ("None": none) and
\* statusList
DeviceData(is_dict, device_id, type_code, feature_code, status_list) ==
    [is_dict |-> is_dict, deviceId |-> device_id, deviceTypeCode |-> type_code,
     deviceFeatureCode |-> feature_code, statusList |-> status_list]
NoData == DeviceData(FALSE, 0, "", "", EmptyDict)

\* The frame of async_get_devices: where it is suspended (pc), the deviceList
\* it got (list), the entries it has not looked at yet (rest), the entry it
\* is at (cur), the property list of that device (property_list), the keys
\* of the dict it returns (found) and the exception it raised (err).
NoDiscovery ==
    [pc |-> "idle", list |-> <<>>, rest |-> <<>>, cur |-> NoData,
     property_list |-> {}, found |-> {}, err |-> "none"]

IdleTask == [op |-> "none", pc |-> "idle", stage |-> 0, method |-> "", endpoint |-> "",
             properties |-> EmptyDict, params |-> EmptyDict, sent |-> NoRequest,
             status |-> 0, evErr |-> "none", answer |-> NoAnswer, err |-> "none",
             result |-> NoResult]

(***************************************************************************)
(* ConnectLifeApiClient: the signed request transport.                     *)
(***************************************************************************)
\* The vendor's answers: net is whether the HTTP exchange took place, json
\* whether the body is a JSON object ("object"), other JSON ("array") or no
\* JSON ("invalid"); body holds the integer fields of the object (msg is the
\* number of a message text) and kvMap its "kvMap" object, empty when the
\* body has none.
VendorAnswer(net, status, json, body, kvMap) ==
    [net |-> net, status |-> status, json |-> json, body |-> body, kvMap |-> kvMap]

VendorOk == VendorAnswer(TRUE, 200, "object", [resultCode |-> 0], [t_power |-> PyStr(1)])
VendorOkNoEcho == VendorAnswer(TRUE, 200, "object", [resultCode |-> 0], EmptyDict)
VendorError == VendorAnswer(TRUE, 200, "object", [resultCode |-> 1, msg |-> 7], EmptyDict)
VendorHttp500 == VendorAnswer(TRUE, 500, "invalid", EmptyDict, EmptyDict)
VendorNotJson == VendorAnswer(TRUE, 200, "invalid", EmptyDict, EmptyDict)
VendorNotObject == VendorAnswer(TRUE, 200, "array", EmptyDict, EmptyDict)
VendorNoNetwork == VendorAnswer(FALSE, 0, "invalid", EmptyDict, EmptyDict)

VendorResponses ==
    {VendorOk, VendorOkNoEcho, VendorError, VendorHttp500, VendorNotJson,
     VendorNotObject, VendorNoNetwork}

\* _get_source_id with the slip of generating an id at every call
GetSourceIdEachCall(src) == src + 1

\* _get_source_id: the ids are numbered by the runs of _generate_uuid, 0
\* being None; the first run gives 1
GetSourceId(src) == IF src = 0 THEN src + 1 ELSE src

\* _get_system_parameters: the dict without the access token (timeStamp,
\* randStr and the fixed strings are opaque here and written 0)
SystemParameters(src) ==
    [timeStamp |-> 0, version |-> 0, languageId |-> 0, timezone |-> 0, randStr |-> 0,
     appId |-> 0, sourceId |-> src, platformId |-> 5]

\* _get_system_parameters, lines 234-240: the access token is added when
\* async_get_access_token returned one (fetched), and left out when it raised
WithAccessToken(params, tok, fetched) ==
    IF fetched /\ Get(tok, "access_token", 0) # 0
    THEN Put(params, "accessToken", tok["access_token"])
    ELSE params

\* d without the key k (dict.pop(k, None))
Without(d, k) == [x \in DOMAIN d \ {k} |-> d[x]]

\* The caller's data of a request: async_control_device passes puid and
\* properties, the model's other POST passes puid, the GET passes nothing.
RequestData(tk) ==
    IF tk.op = "control" THEN [puid |-> 1, properties |-> 1]
    ELSE IF tk.method = "POST" THEN [puid |-> 1]
    ELSE EmptyDict

\* BuildRequest with the slip of leaving the access token in the query of a
\* GET (url_params.pop is missing)
BuildRequestTokenInQuery(tk, header_token) ==
    LET request_data == Update(RequestData(tk), tk.params) IN
    IF tk.method = "GET"
    THEN [method |-> "GET", endpoint |-> tk.endpoint,
          query |-> request_data,
          body |-> EmptyDict, digested |-> EmptyDict,
          accessTokenHeader |-> header_token, properties |-> EmptyDict]
    ELSE [method |-> tk.method, endpoint |-> tk.endpoint,
          query |-> EmptyDict,
          body |-> request_data, digested |-> request_data,
          accessTokenHeader |-> 0, properties |-> tk.properties]

\* _api_request, lines 114-186: the request that is sent.  header_token is the
\* access token of the accessToken header of a GET.
BuildRequest(tk, header_token) ==
    LET request_data == Update(RequestData(tk), tk.params) IN
    IF tk.method = "GET"
    THEN [method |-> "GET", endpoint |-> tk.endpoint,
          query |-> Without(request_data, "accessToken"),
          body |-> EmptyDict, digested |-> EmptyDict,
          accessTokenHeader |-> header_token, properties |-> EmptyDict]
    ELSE [method |-> tk.method, endpoint |-> tk.endpoint,
          query |-> EmptyDict,
          body |-> request_data, digested |-> request_data,
          accessTokenHeader |-> 0, properties |-> tk.properties]

\* The frame of a call that is over: e is the exception it raised to its
\* caller ("none": it returned); its locals are gone.
Raised(tk, e) ==
    [IdleTask EXCEPT !.op = tk.op, !.pc = "done", !.stage = tk.stage, !.err = e,
                     !.evErr = tk.evErr, !.status = tk.status]

\* _api_request from line 127 on: the request is built and sent, and the
\* coroutine waits for the response.
SendRequest(tk, header_token) ==
    [tk EXCEPT !.pc = "http_wait", !.sent = BuildRequest(tk, header_token),
               !.params = EmptyDict]

\* _api_request, lines 122-125, once the async_ensure_token_valid of
\* async_get_access_token has returned: self.token["access_token"] is read (a
\* KeyError becomes ApiError at line 213).
HeaderFetched(tk, tok) ==
    IF ~Has(tok, "access_token")
    THEN Raised(tk, "ApiError")
    ELSE SendRequest(tk, tok["access_token"])

\* _api_request from line 118 on: a GET fetches the access token for its
\* header, which is the third async_ensure_token_valid of the call.
FromHeaders(tk, tok, src, t) ==
    IF tk.method = "GET"
    THEN LET begun == EnsureBegin(tok, t) IN
         CASE begun.outcome = "raise" ->
                [tk |-> Raised([tk EXCEPT !.stage = 3, !.evErr = begun.raised], "ApiError"),
                 tok |-> begun.tok, src |-> src]
           [] begun.outcome = "await" ->
                [tk |-> [tk EXCEPT !.pc = "refresh_wait", !.stage = 3, !.evErr = "none"],
                 tok |-> begun.tok, src |-> src]
           [] begun.outcome = "return" ->
                [tk |-> HeaderFetched([tk EXCEPT !.stage = 3, !.evErr = "none"], begun.tok),
                 tok |-> begun.tok, src |-> src]
    ELSE [tk |-> SendRequest(tk, 0), tok |-> tok, src |-> src]

\* _api_request from line 111 on: _get_system_parameters takes the source id
\* and fetches the access token, which is the second async_ensure_token_valid
\* of the call; whatever that raises is swallowed (lines 239-240).
FromParameters(tk, tok, src, t) ==
    LET sid == GetSourceId(src)
        params == SystemParameters(sid)
        begun == EnsureBegin(tok, t)
    IN  CASE begun.outcome = "raise" ->
               FromHeaders([tk EXCEPT !.stage = 2, !.evErr = begun.raised,
                                      !.params = WithAccessToken(params, begun.tok, FALSE)],
                           begun.tok, sid, t)
          [] begun.outcome = "await" ->
               [tk |-> [tk EXCEPT !.pc = "refresh_wait", !.stage = 2, !.params = params],
                tok |-> begun.tok, src |-> sid]
          [] begun.outcome = "return" ->
               FromHeaders([tk EXCEPT !.stage = 2,
                                      !.params = WithAccessToken(params, begun.tok, TRUE)],
                           begun.tok, sid, t)

\* _api_request from its first line: the first async_ensure_token_valid; what
\* it raises becomes ApiError at line 213.
FromStart(tk, tok, src, t) ==
    LET begun == EnsureBegin(tok, t) IN
    CASE begun.outcome = "raise" ->
           [tk |-> Raised([tk EXCEPT !.stage = 1, !.evErr = begun.raised], "ApiError"),
            tok |-> begun.tok, src |-> src]
      [] begun.outcome = "await" ->
           [tk |-> [tk EXCEPT !.pc = "refresh_wait", !.stage = 1],
            tok |-> begun.tok, src |-> src]
      [] begun.outcome = "return" ->
           FromParameters(tk, begun.tok, src, t)

\* _api_request when the refresh-token grant of its async_ensure_token_valid
\* number tk.stage is over: raised tells whether that call raised TokenError.
AfterRefresh(tk, tok, src, raised, t) ==
    LET tk1 == [tk EXCEPT !.evErr = IF raised THEN RefreshError ELSE "none"] IN
    CASE tk.stage = 1 ->
           IF raised
           THEN [tk |-> Raised(tk1, "ApiError"), tok |-> tok, src |-> src]
           ELSE FromParameters(tk1, tok, src, t)
      [] tk.stage = 2 ->
           FromHeaders([tk1 EXCEPT !.params = WithAccessToken(tk.params, tok, ~raised)],
                       tok, src, t)
      [] tk.stage = 3 ->
           IF raised
           THEN [tk |-> Raised(tk1, "ApiError"), tok |-> tok, src |-> src]
           ELSE [tk |-> HeaderFetched(tk1, tok), tok |-> tok, src |-> src]

\* _api_request, lines 185-215, from the vendor's answer on: the exception
\* raised to the caller ("none": the envelope is returned)
ApiRespond(vresp) ==
    IF ~vresp.net THEN "ApiError"
    ELSE IF vresp.status >= 400 THEN "ApiError"
    ELSE IF vresp.json = "invalid" THEN "ApiError"
    ELSE IF vresp.json # "object" THEN "ApiError"
    ELSE IF Get(vresp.body, "resultCode", -1) # 0 THEN "ApiError"
    ELSE "none"

\* ControlResult with the slip of taking the envelope for the confirmed state
ControlResultEnvelope(vresp) ==
    IF Get(vresp.body, "resultCode", -1) = 0
    THEN [success |-> TRUE, status |-> vresp.body]
    ELSE NoResult

\* async_control_device, lines 542-546: the dict returned for the envelope
\* that _api_request returned
ControlResult(vresp) ==
    IF Get(vresp.body, "resultCode", -1) = 0
    THEN [success |-> TRUE, status |-> vresp.kvMap]
    ELSE NoResult

\* The frame of a call of _api_request, or of async_control_device, that got
\* the vendor's answer vresp.
Answered(tk, vresp) ==
    LET e == ApiRespond(vresp) IN
    [Raised(tk, e) EXCEPT
       !.status = vresp.status,
       !.answer = vresp,
       !.result = IF e = "none" /\ tk.op = "control" THEN ControlResult(vresp) ELSE NoResult]

(***************************************************************************)
(* The callers' coroutines.                                                *)
(***************************************************************************)
\* The time at which a record held its expires_in: a record that is received
\* with expires_at has it from the receipt, at expires_at - expires_in.
ReceivedAt(rec, t) ==
    IF Has(rec, "expires_in") /\ Has(rec, "expires_at")
    THEN rec["expires_at"] - rec["expires_in"]
    ELSE t

\* The records a session can find in its token file when it is constructed:
\* none, one saved by an earlier grant, one that holds expires_in only, and
\* one with neither a refresh token nor an expiry.
InitialRecords ==
    {EmptyDict,
     [access_token |-> 1, refresh_token |-> 1, expires_in |-> ExpiresIn,
      expires_at |-> StartTime + ExpiresIn],
     [access_token |-> 1, refresh_token |-> 1, expires_in |-> ExpiresIn],
     [access_token |-> 1]}

\* OAuth2Session.__init__ and ConnectLifeApiClient.__init__
Init ==
    /\ now = StartTime
    /\ \E rec \in InitialRecords :
          /\ storage = IF rec = EmptyDict THEN AbsentFile ELSE CompleteFile(rec)
          /\ token = StorageLoad(storage)
    /\ proc = "running"
    /\ source_id = 0
    /\ task = [t \in Tasks |-> IdleTask]
    /\ recvAt = StartTime
    /\ devices = NoDevices
    /\ codec = NoCall
    /\ disc = NoDiscovery

\* The state after a segment of task t that left the record tok, the file sto
\* and the frame tk; a segment that was killed in the save ends the process.
Commit(t, outcome, tok, sto, tk) ==
    /\ storage' = sto
    /\ IF outcome = "crash"
       THEN /\ proc' = "crashed"
            /\ token' = EmptyDict
            /\ task' = [u \in Tasks |-> IdleTask]
       ELSE /\ proc' = proc
            /\ token' = tok
            /\ task' = [task EXCEPT ![t] = tk]

\* A caller calls async_ensure_token_valid().
EnsureValidCall(t) ==
    /\ proc = "running"
    /\ task[t].op = "none"
    /\ LET begun == EnsureBegin(token, now) IN
       /\ token' = begun.tok
       /\ task' = [task EXCEPT ![t] =
                     [IdleTask EXCEPT
                        !.op = "ensure",
                        !.pc = IF begun.outcome = "await" THEN "refresh_wait" ELSE "done",
                        !.evErr = begun.raised,
                        !.err = begun.raised]]
    /\ UNCHANGED <<now, storage, proc, source_id, recvAt>>

\* The token endpoint answers the refresh-token grant of a caller of
\* async_ensure_token_valid().
EnsureValidResume(t) ==
    /\ proc = "running"
    /\ task[t].op = "ensure"
    /\ task[t].pc = "refresh_wait"
    /\ \E resp \in TokenResponses, saved \in SaveOutcomes :
          LET res == EnsureResume(token, storage, resp, saved, now) IN
          /\ Commit(t, res.outcome, res.tok, res.sto,
                    [task[t] EXCEPT
                       !.pc = "done",
                       !.status = resp.status,
                       !.evErr = res.raised,
                       !.err = res.raised])
          /\ recvAt' = IF res.outcome = "return" THEN ReceivedAt(res.tok, recvAt) ELSE recvAt
    /\ UNCHANGED <<now, source_id>>

\* A caller calls exchange_code(code) or login_with_password(username,
\* password): the grant is posted to the token endpoint.
GrantCall(t) ==
    /\ proc = "running"
    /\ task[t].op = "none"
    /\ \E op \in {"exchange", "login"} :
          task' = [task EXCEPT ![t] = [IdleTask EXCEPT !.op = op, !.pc = "grant_wait"]]
    /\ UNCHANGED <<now, token, storage, proc, source_id, recvAt>>

\* The token endpoint answers the grant.
GrantReturn(t) ==
    /\ proc = "running"
    /\ task[t].pc = "grant_wait"
    /\ \E resp \in TokenResponses, saved \in SaveOutcomes :
          LET res == GrantResume(token, storage, resp, saved, now) IN
          /\ Commit(t, res.outcome, res.tok, res.sto,
                    [task[t] EXCEPT !.pc = "done", !.status = resp.status, !.err = res.raised])
          /\ recvAt' = IF res.outcome = "return" THEN ReceivedAt(res.tok, now) ELSE recvAt
    /\ UNCHANGED <<now, source_id>>

\* The caller takes the result of its call.
Return(t) ==
    /\ proc = "running"
    /\ task[t].pc = "done"
    /\ task' = [task EXCEPT ![t] = IdleTask]
    /\ UNCHANGED <<now, token, storage, proc, source_id, recvAt>>

\* Time passes.
Tick ==
    /\ now + TickLen \in Times
    /\ now' = now + TickLen
    /\ UNCHANGED <<token, storage, proc, source_id, task, recvAt>>

\* The program is started again after it was killed: a new session loads the
\* token file.
Restart ==
    /\ proc = "crashed"
    /\ proc' = "running"
    /\ token' = StorageLoad(storage)
    /\ recvAt' = ReceivedAt(StorageLoad(storage), now)
    /\ source_id' = 0
    /\ UNCHANGED <<now, storage, task>>

\* The property maps the callers pass to async_control_device: the power
\* switch, a target temperature outside both intervals of its range, and a
\* map that also sets a read-only attribute.
ControlInputs ==
    {[t_power |-> PyInt(1)],
     [t_temp |-> PyInt(33)],
     [t_power |-> PyInt(1), f_temp_in |-> PyInt(20)]}

\* A caller calls _api_request(method, endpoint, data): a GET of the device
\* list or a POST for one device.
RequestCall(t) ==
    /\ proc = "running"
    /\ task[t].op = "none"
    /\ \E method \in {"GET", "POST"} :
          LET res == FromStart([IdleTask EXCEPT
                                  !.op = "request", !.method = method,
                                  !.endpoint = IF method = "GET" THEN "device_list"
                                               ELSE "static_data"],
                               token, source_id, now) IN
          /\ token' = res.tok
          /\ source_id' = res.src
          /\ task' = [task EXCEPT ![t] = res.tk]
    /\ UNCHANGED <<now, storage, proc, recvAt>>

\* A caller calls async_control_device(puid, properties), which posts the
\* property map to the device-control endpoint.
ControlCall(t) ==
    /\ proc = "running"
    /\ task[t].op = "none"
    /\ \E properties \in ControlInputs :
          LET res == FromStart([IdleTask EXCEPT
                                  !.op = "control", !.method = "POST",
                                  !.endpoint = "device_control",
                                  !.properties = properties],
                               token, source_id, now) IN
          /\ token' = res.tok
          /\ source_id' = res.src
          /\ task' = [task EXCEPT ![t] = res.tk]
    /\ UNCHANGED <<now, storage, proc, recvAt>>

\* The token endpoint answers the refresh-token grant that one of the
\* async_ensure_token_valid calls of a request is waiting for.
RequestRefreshed(t) ==
    /\ proc = "running"
    /\ task[t].op \in {"request", "control"}
    /\ task[t].pc = "refresh_wait"
    /\ \E resp \in TokenResponses, saved \in SaveOutcomes :
          LET ens == EnsureResume(token, storage, resp, saved, now)
              res == AfterRefresh(task[t], ens.tok, source_id, ens.outcome = "raise", now)
          IN  /\ Commit(t, ens.outcome, res.tok, ens.sto, res.tk)
              /\ source_id' = IF ens.outcome = "crash" THEN source_id ELSE res.src
              /\ recvAt' = IF ens.outcome = "return"
                           THEN ReceivedAt(ens.tok, recvAt) ELSE recvAt
    /\ UNCHANGED now

\* The vendor answers the request of a caller.
HttpReturn(t) ==
    /\ proc = "running"
    /\ task[t].pc = "http_wait"
    /\ \E vresp \in VendorResponses :
          task' = [task EXCEPT ![t] = Answered(task[t], vresp)]
    /\ UNCHANGED <<now, token, storage, proc, source_id, recvAt>>

\* The token lifecycle manager under concurrent callers.
Next ==
    \/ \E t \in Tasks : EnsureValidCall(t) /\ UNCHANGED clientVars
    \/ \E t \in Tasks : EnsureValidResume(t) /\ UNCHANGED clientVars
    \/ \E t \in Tasks : GrantCall(t) /\ UNCHANGED clientVars
    \/ \E t \in Tasks : GrantReturn(t) /\ UNCHANGED clientVars
    \/ \E t \in Tasks : Return(t) /\ UNCHANGED clientVars
    \/ Tick /\ UNCHANGED clientVars
    \/ Restart /\ UNCHANGED clientVars

Spec == Init /\ [][Next]_vars

\* A caller calls logout(), which does not suspend: self.token is bound to a
\* new empty dict and the token file is cleared.  Grants that are in flight
\* are not cancelled.
Logout ==
    /\ proc = "running"
    /\ \E outcome \in ClearOutcomes :
          /\ token' = EmptyDict
          /\ storage' = StorageClear(storage, outcome)
    /\ UNCHANGED <<now, proc, source_id, task, recvAt>>

\* The token lifecycle manager with callers that log out.
NextLogout ==
    \/ \E t \in Tasks : EnsureValidCall(t) /\ UNCHANGED clientVars
    \/ \E t \in Tasks : EnsureValidResume(t) /\ UNCHANGED clientVars
    \/ \E t \in Tasks : GrantCall(t) /\ UNCHANGED clientVars
    \/ \E t \in Tasks : GrantReturn(t) /\ UNCHANGED clientVars
    \/ \E t \in Tasks : Return(t) /\ UNCHANGED clientVars
    \/ Logout /\ UNCHANGED clientVars
    \/ Tick /\ UNCHANGED clientVars
    \/ Restart /\ UNCHANGED clientVars

SpecLogout == Init /\ [][NextLogout]_vars

\* value in attr.value_map: the keys are strings of decimal digits, so that
\* neither an int nor a float is one of them
InValueMap(value, value_map) ==
    /\ value.ty = "str"
    /\ value.n \in DOMAIN value_map

\* ParseAttribute with the slip of dropping the value of an enum attribute
\* that matches no key of its map
ParseAttributeDropsUnmatched(attr, value) ==
    IF DOMAIN attr.value_map # {} /\ InValueMap(value, attr.value_map)
    THEN [kind |-> "set", value |-> PyLabel(attr.value_map[value.n])]
    ELSE IF attr.attr_type = "Number"
    THEN IF FloatRaises(value)
         THEN [kind |-> "skip", value |-> PyNone]
         ELSE IF FloatOverflows(value)
         THEN [kind |-> "raise", value |-> PyNone]
         ELSE [kind |-> "set", value |-> PyFloat(FloatOf(value))]
    ELSE [kind |-> "skip", value |-> PyNone]

\* parse_status, lines 62-76, for one key of the schema that the status has:
\* the parsed value is set, the key is skipped (ValueError or TypeError), or
\* an exception that the except clause does not catch leaves parse_status.
ParseAttribute(attr, value) ==
    IF DOMAIN attr.value_map # {} /\ InValueMap(value, attr.value_map)
    THEN [kind |-> "set", value |-> PyLabel(attr.value_map[value.n])]
    ELSE IF attr.attr_type = "Number"
    THEN IF FloatRaises(value)
         THEN [kind |-> "skip", value |-> PyNone]
         ELSE IF FloatOverflows(value)
         THEN [kind |-> "raise", value |-> PyNone]
         ELSE [kind |-> "set", value |-> PyFloat(FloatOf(value))]
    ELSE [kind |-> "set", value |-> value]

\* BaseDeviceParser.parse_status: the exception that leaves it ("none": it
\* returns) and the dict it returns
ParseStatus(attributes, status) ==
    LET keys == DOMAIN attributes \intersect DOMAIN status
        one(key) == ParseAttribute(attributes[key], status[key])
    IN  IF \E key \in keys : one(key).kind = "raise"
        THEN [raised |-> "OverflowError", parsed |-> EmptyDict]
        ELSE [raised |-> "none",
              parsed |-> [key \in {k \in keys : one(k).kind = "set"} |-> one(key).value]]

\* The raw status maps a caller passes: up to MaxStatusKeys keys, of the
\* schema or not, with the values of a status list
StatusKeys == {"t_power", "t_work_mode", "t_temp", "f_temp_in", UnknownKey}
StatusValues ==
    {PyStr(1), PyStr(2), PyInt(2), PyStr(7), PyStr(16), PyText, PyNone, PyHuge,
     PyLabel("Cool")}
MaxStatusKeys == 2
RawStatuses ==
    UNION {[keys -> StatusValues] :
             keys \in {ks \in SUBSET StatusKeys : Cardinality(ks) <= MaxStatusKeys}}

(***************************************************************************)
(* The registry of the parsers.  A parser class is its name.               *)
(***************************************************************************)
\* DEVICE_PARSERS
DEVICE_PARSERS ==
    (<<"035", "699">> :> "HeatPump035699Parser")
    @@ (<<"006", "299">> :> "PortableAC006299Parser")
    @@ (<<"007", "">> :> "Dehumidifier007Parser")
    @@ (<<"013", "">> :> "Oven013Parser")
    @@ (<<"044", "">> :> "HeatPump044Parser")
    @@ (<<"043", "">> :> "HubController043Parser")

\* supported_device_types of get_device_parser: the types of the default
\* bean parser
BeanDeviceTypes == {"009", "008", "006", "016"}

\* get_device_parser with the slip of trying the default bean parser first
GetDeviceParserBeanFirst(device_type, feature_code) ==
    IF device_type \in BeanDeviceTypes
    THEN "BaseBeanParser"
    ELSE IF <<device_type, feature_code>> \in DOMAIN DEVICE_PARSERS
    THEN DEVICE_PARSERS[<<device_type, feature_code>>]
    ELSE IF <<device_type, "">> \in DOMAIN DEVICE_PARSERS
    THEN DEVICE_PARSERS[<<device_type, "">>]
    ELSE IF device_type = "007"
    THEN "Dehumidifier007Parser"
    ELSE "ValueError"

\* get_device_parser: the parser class, or the ValueError it raises
GetDeviceParser(device_type, feature_code) ==
    IF <<device_type, feature_code>> \in DOMAIN DEVICE_PARSERS
    THEN DEVICE_PARSERS[<<device_type, feature_code>>]
    ELSE IF <<device_type, "">> \in DOMAIN DEVICE_PARSERS
    THEN DEVICE_PARSERS[<<device_type, "">>]
    ELSE IF device_type = "007"
    THEN "Dehumidifier007Parser"
    ELSE IF device_type \in BeanDeviceTypes
    THEN "BaseBeanParser"
    ELSE "ValueError"

\* The device types and feature codes a caller passes: those of the
\* registry, those of the bean parser, and two that nothing knows
DeviceTypes == {"009", "008", "006", "016", "007", "013", "035", "044", "043", "015", "999"}
FeatureCodes == {"", "199", "299", "399", "699"}

(***************************************************************************)
(* ConnectLifeApiClient.async_get_devices: discovery.                      *)
(***************************************************************************)
\* isinstance(parser, BaseBeanParser)
IsBeanParser(parser_class) == parser_class \in {"BaseBeanParser", "PortableAC006299Parser"}

\* The schema of an instance of a parser class that discovery can create
ClassAttributes(parser_class) ==
    CASE parser_class = "BaseBeanParser" -> BaseBeanAttributes
      [] parser_class = "PortableAC006299Parser" -> BaseBeanAttributes
      [] parser_class = "Dehumidifier007Parser" -> Dehumidifier007Attributes

\* remove_attribute: the schema the parser has afterwards.  BaseBeanParser
\* deletes the key from the dict it keeps in _attributes; the method of
\* BaseDeviceParser deletes it from the dict that the attributes property
\* returns, which Dehumidifier007Parser and HeatPump035699Parser build anew
\* at every call.
RemoveAttribute(parser_class, attributes, key) ==
    IF parser_class \in {"Dehumidifier007Parser", "HeatPump035699Parser"}
    THEN attributes
    ELSE Without(attributes, key)

\* supported_device_types of async_get_devices
SupportedDeviceTypes == {"009", "008", "007", "006", "016", "035", "013", "044", "043"}

\* An entry of a property list: propertyValueList is the list of its comma
\* separated segments, <<>> when the entry has none
Property(key, values) == [propertyKey |-> key, propertyValueList |-> values]

\* The property list of a device that does not report its power
PlainProperties == {Property("t_power", <<<<0>>, <<1>>>>)}

\* The property list of a bean device that reports its power
BeanProperties ==
    {Property("t_power", <<<<0>>, <<1>>>>),
     Property("t_work_mode", <<<<0>>, <<1>>, <<2>>, <<3>>, <<4>>>>),
     Property("f_power_display", <<>>)}

\* The answers to a sub-fetch of discovery: "fail" is an ApiError of the
\* request, everything else what the fetch returns
PropertyAnswers == {"fail", "plain", "properties"}
StaticAnswers == {"fail", "ok"}
PowerAnswers == {"fail", "value"}
SelfCheckAnswers == {"fail", "failed"}

\* The literals of a propertyValueList (property_value_list.split(","))
Literals(values) == {values[i][1] : i \in {j \in 1..Len(values) : Len(values[j]) = 1}}

\* CreateFilteredParser with the slip of leaving out a property that is
\* reported without a value list
CreateFilteredParserDropsUnlisted(attributes, property_list) ==
    LET prop_of(key) == CHOOSE prop \in property_list : prop.propertyKey = key
        kept == {key \in {prop.propertyKey : prop \in property_list} \intersect DOMAIN attributes :
                    prop_of(key).propertyValueList # <<>>}
        filtered(key) ==
            LET attribute == attributes[key]
                property_value_list == prop_of(key).propertyValueList
            IN  [attribute EXCEPT
                   !.value_range = property_value_list,
                   !.value_map = IF DOMAIN @ # {}
                                 THEN [k \in DOMAIN @ \intersect Literals(property_value_list)
                                         |-> @[k]]
                                 ELSE @]
    IN  [key \in kept \union {"f_power_consumption"} |->
           IF key \in kept
           THEN filtered(key)
           ELSE Attribute("Number", <<>>, NoMap, "R")]

\* CreateFilteredParser with the slip of leaving the value map as the base
\* schema has it
CreateFilteredParserKeepsMap(attributes, property_list) ==
    LET kept == {prop.propertyKey : prop \in property_list} \intersect DOMAIN attributes
        prop_of(key) == CHOOSE prop \in property_list : prop.propertyKey = key
        filtered(key) ==
            [attributes[key] EXCEPT
               !.value_range = IF prop_of(key).propertyValueList # <<>>
                               THEN prop_of(key).propertyValueList ELSE @]
    IN  [key \in kept \union {"f_power_consumption"} |->
           IF key \in kept
           THEN filtered(key)
           ELSE Attribute("Number", <<>>, NoMap, "R")]

\* _create_filtered_parser: the attributes of the filtered parser
CreateFilteredParser(attributes, property_list) ==
    LET property_keys == {prop.propertyKey : prop \in property_list}
        kept == property_keys \intersect DOMAIN attributes
        prop_of(key) == CHOOSE prop \in property_list : prop.propertyKey = key
        filtered(key) ==
            LET attribute == attributes[key]
                property_value_list == prop_of(key).propertyValueList
            IN  [attribute EXCEPT
                   !.value_range = IF property_value_list # <<>>
                                   THEN property_value_list ELSE @,
                   !.value_map = IF DOMAIN @ # {} /\ property_value_list # <<>>
                                 THEN [k \in DOMAIN @ \intersect Literals(property_value_list)
                                         |-> @[k]]
                                 ELSE @]
    IN  [key \in kept \union {"f_power_consumption"} |->
           IF key \in kept
           THEN filtered(key)
           ELSE Attribute("Number", <<>>, NoMap, "R")]

\* _check_power_consumption, lines 413-428: has_power
HasPower(device_type_code, property_list) ==
    LET property_keys == {prop.propertyKey : prop \in property_list} IN
    IF device_type_code = "009"
    THEN {"f_power_display", "f_cool_qvalue", "f_heat_qvalue"} \intersect property_keys # {}
    ELSE IF device_type_code \in {"008", "006", "007"}
    THEN "f_power_display" \in property_keys
    ELSE FALSE

\* "99" in device_feature_code, for the feature codes of the model
Has99(feature_code) == feature_code \in {"199", "299", "399", "699"}

\* A DeviceInfo with the entry of self.parsers for its id (parser "none":
\* there is no entry).  A new DeviceInfo for an id takes the place of the
\* old one in self._devices; the entry of self.parsers stays until a parser
\* is stored for the id again.
Device(status, failed_data, parser, attributes) ==
    [status |-> status, failed_data |-> failed_data, parser |-> parser,
     attributes |-> attributes]

\* The result of a segment of async_get_devices: its frame and the devices
Segment(frame, devs) == [frame |-> frame, devices |-> devs]

\* The loop over device_list from the entry after the current one on, up to
\* the next await or the end: lines 256-283.  An entry that is no dict
\* raises AttributeError at line 257, outside the try of the loop body, and
\* the handler of line 354 raises ApiError.
RECURSIVE NextEntry(_, _)
NextEntry(frame, devs) ==
    IF frame.rest = <<>>
    THEN Segment([frame EXCEPT !.pc = "done", !.cur = NoData, !.property_list = {}], devs)
    ELSE LET device_data == Head(frame.rest)
             next == [frame EXCEPT !.rest = Tail(frame.rest), !.cur = device_data,
                                   !.property_list = {}]
         IN  IF ~device_data.is_dict
             THEN Segment([next EXCEPT !.pc = "done", !.cur = NoData, !.found = {},
                                       !.err = "ApiError"], devs)
             ELSE IF device_data.deviceTypeCode \notin SupportedDeviceTypes
             THEN NextEntry(next, devs)
             ELSE Segment([next EXCEPT !.pc = "props_wait",
                                       !.found = @ \union {device_data.deviceId}],
                          (device_data.deviceId :>
                             IF device_data.deviceId \in DOMAIN devs
                             THEN Device(device_data.statusList, <<>>,
                                         devs[device_data.deviceId].parser,
                                         devs[device_data.deviceId].attributes)
                             ELSE Device(device_data.statusList, <<>>, "none", EmptyDict))
                          @@ devs)

\* NextEntry with the slip of ending the loop at a device whose processing
\* raised
NextEntryStops(frame, devs) ==
    Segment([frame EXCEPT !.pc = "done", !.cur = NoData, !.property_list = {}], devs)

\* The handler of the loop body (lines 346-349): the exception is logged and
\* the loop goes on with the next entry.
DeviceFailed(frame, devs) == NextEntry(frame, devs)

\* Lines 320-323, after the parser is stored: _check_power_consumption up to
\* its await, or, without a power feature, to the await of the self check.
CheckPower(frame, devs) ==
    LET id == frame.cur.deviceId IN
    IF HasPower(frame.cur.deviceTypeCode, frame.property_list)
    THEN Segment([frame EXCEPT !.pc = "power_wait"], devs)
    ELSE Segment([frame EXCEPT !.pc = "check_wait"],
                 [devs EXCEPT ![id].attributes =
                     RemoveAttribute(devs[id].parser, @, "f_power_consumption")])

\* Lines 303-318: the parser of the device is resolved, created, filtered
\* and stored.
StoreParser(frame, devs) ==
    LET id == frame.cur.deviceId
        parser_class == GetDeviceParser(frame.cur.deviceTypeCode, frame.cur.deviceFeatureCode)
    IN  IF parser_class = "ValueError"
        THEN DeviceFailed(frame, devs)
        ELSE LET attributes ==
                    IF IsBeanParser(parser_class) /\ frame.property_list # {}
                    THEN CreateFilteredParser(ClassAttributes(parser_class),
                                              frame.property_list)
                    ELSE ClassAttributes(parser_class)
                 parser == IF IsBeanParser(parser_class) /\ frame.property_list # {}
                           THEN "BaseBeanParser" ELSE parser_class
             IN  CheckPower(frame, [devs EXCEPT ![id].parser = parser,
                                                ![id].attributes = attributes])

\* Lines 286-299, from the answer to the property list fetch on.  A feature
\* code that is None raises TypeError at '"99" in device_feature_code'.
AfterProperties(frame, devs, answer) ==
    LET got == [frame EXCEPT !.property_list =
                   IF answer = "fail" THEN {}
                   ELSE IF answer = "plain" THEN PlainProperties
                   ELSE BeanProperties]
    IN  IF got.cur.deviceFeatureCode = "None"
        THEN DeviceFailed(got, devs)
        ELSE IF Has99(got.cur.deviceFeatureCode)
        THEN Segment([got EXCEPT !.pc = "static_wait"], devs)
        ELSE StoreParser(got, devs)

\* _check_power_consumption, lines 430-450, from the answer to the power
\* fetch on.
AfterPower(frame, devs, answer) ==
    LET id == frame.cur.deviceId IN
    Segment([frame EXCEPT !.pc = "check_wait"],
            IF answer = "fail"
            THEN devs
            ELSE [devs EXCEPT ![id].status = ("f_power_consumption" :> PyInt(5)) @@ @])

\* Lines 330-341, from the answer to the self check on.
AfterSelfCheck(frame, devs, answer) ==
    LET id == frame.cur.deviceId IN
    NextEntry(frame,
              IF answer = "fail"
              THEN devs
              ELSE [devs EXCEPT ![id].failed_data = <<"f_e_intemp">>])

\* The entries of a device list: the split AC of type 009 and feature 199,
\* the same device switched off, a portable AC (006, 299), a dehumidifier
\* (007), a heat pump whose feature code has no parser, a device of an
\* unsupported type, the split AC listed without its feature
\* code, and an entry that is no JSON object.
DataSplitAC ==
    DeviceData(TRUE, 1, "009", "199", [t_power |-> PyStr(1), t_work_mode |-> PyStr(2)])
DataSplitACOff == DeviceData(TRUE, 1, "009", "199", [t_power |-> PyStr(0)])
DataPortableAC == DeviceData(TRUE, 2, "006", "299", [t_power |-> PyStr(0)])
DataDehumidifier == DeviceData(TRUE, 2, "007", "", [t_power |-> PyStr(1)])
DataHeatPump == DeviceData(TRUE, 3, "035", "199", EmptyDict)
DataUnsupported == DeviceData(TRUE, 4, "015", "", EmptyDict)
DataNoFeature == DeviceData(TRUE, 1, "009", "None", [t_power |-> PyStr(1)])
DataNotDict == NoData

DeviceEntries ==
    {DataSplitAC, DataSplitACOff, DataPortableAC, DataDehumidifier, DataHeatPump,
     DataUnsupported,
     DataNoFeature, DataNotDict}

\* The device lists of the vendor: up to MaxDevices entries, a device being
\* listed once
MaxDevices == 2
DeviceLists ==
    {device_list \in UNION {[1..n -> DeviceEntries] : n \in 0..MaxDevices} :
        \A i, j \in 1..Len(device_list) :
           (i # j /\ device_list[i].is_dict /\ device_list[j].is_dict)
           => device_list[i].deviceId # device_list[j].deviceId}

\* The state in which the codec is studied: a client that has no token and
\* no device, and no call made yet.
InitCodec ==
    /\ now = StartTime
    /\ token = EmptyDict
    /\ storage = AbsentFile
    /\ proc = "running"
    /\ source_id = 0
    /\ task = [t \in Tasks |-> IdleTask]
    /\ recvAt = StartTime
    /\ devices = NoDevices
    /\ codec = NoCall
    /\ disc = NoDiscovery

\* A caller calls validate_value(key, value) on a parser.
ValidateCall ==
    /\ codec.op = "none"
    /\ \E name \in DOMAIN Schemas :
          \E key \in SchemaKeys(name), value \in ProbeValues :
             codec' = [op |-> "validate", schema |-> name, key |-> key, value |-> value,
                       outcome |-> ValidateOutcome(Schemas[name], key, value)]
    /\ UNCHANGED <<now, token, storage, proc, source_id, task, recvAt, devices, disc>>

\* A caller calls parse_status(status) on a parser.
ParseCall ==
    /\ codec.op = "none"
    /\ \E name \in DOMAIN Schemas, status \in RawStatuses :
          LET res == ParseStatus(Schemas[name], status) IN
          codec' = [op |-> "parse", schema |-> name, status |-> status,
                    raised |-> res.raised, parsed |-> res.parsed]
    /\ UNCHANGED <<now, token, storage, proc, source_id, task, recvAt, devices, disc>>

\* The caller passes the dict that parse_status returned to parse_status of
\* the same parser.
ParseAgain ==
    /\ codec.op = "parse"
    /\ codec.raised = "none"
    /\ LET res == ParseStatus(Schemas[codec.schema], codec.parsed) IN
       codec' = [op |-> "reparse", schema |-> codec.schema, status |-> codec.status,
                 parsed |-> codec.parsed, raised |-> res.raised, again |-> res.parsed]
    /\ UNCHANGED <<now, token, storage, proc, source_id, task, recvAt, devices, disc>>

\* A caller calls get_device_parser(device_type, feature_code).
ResolveCall ==
    /\ codec.op = "none"
    /\ \E device_type \in DeviceTypes, feature_code \in FeatureCodes :
          codec' = [op |-> "resolve", device_type |-> device_type,
                    feature_code |-> feature_code,
                    outcome |-> GetDeviceParser(device_type, feature_code)]
    /\ UNCHANGED <<now, token, storage, proc, source_id, task, recvAt, devices, disc>>

\* The caller is done with the result of its call.
CodecReturn ==
    /\ codec.op # "none"
    /\ codec' = NoCall
    /\ UNCHANGED <<now, token, storage, proc, source_id, task, recvAt, devices, disc>>

\* The status codec and the parser registry, call by call.
NextCodec ==
    \/ ValidateCall
    \/ ParseCall
    \/ ParseAgain
    \/ ResolveCall
    \/ CodecReturn

SpecCodec == InitCodec /\ [][NextCodec]_vars

\* The entries that the property lists of a bean device are made of: enum
\* properties with the list of their codes, the fan speed without a value
\* list and with one, the target temperature with an interval, and two
\* properties without a value list, of which the schema has only the second.
PropertyPool ==
    {Property("t_power", <<<<0>>, <<1>>>>),
     Property("t_work_mode", <<<<0>>, <<1>>, <<2>>, <<3>>, <<4>>>>),
     Property("t_fan_speed", <<>>),
     Property("t_fan_speed", <<<<5>>, <<7>>, <<9>>>>),
     Property("t_temp", <<<<16, 30>>>>),
     Property("f_power_display", <<>>),
     Property("f_power_consumption", <<>>)}

\* The property lists: one entry for a property
PropertyKeys(property_list) == {prop.propertyKey : prop \in property_list}
PropertyLists ==
    {property_list \in SUBSET PropertyPool :
        \A p, q \in property_list : p.propertyKey = q.propertyKey => p = q}

\* The values of the status maps that are parsed with a narrowed schema: a
\* code, a code that a value list can leave out, and text
NarrowedValues == {PyStr(1), PyStr(2), PyText}

\* A caller narrows a new BaseBeanParser by a property list.
NarrowCall ==
    /\ codec.op = "none"
    /\ \E property_list \in PropertyLists :
          codec' = [op |-> "narrow", property_list |-> property_list,
                    attributes |-> CreateFilteredParser(BaseBeanAttributes, property_list)]
    /\ UNCHANGED <<now, token, storage, proc, source_id, task, recvAt, devices, disc>>

\* The caller passes a status map whose keys are keys of the property list
\* to parse_status of the narrowed parser.
NarrowedParse ==
    /\ codec.op = "narrow"
    /\ \E keys \in SUBSET PropertyKeys(codec.property_list) :
          \E status \in [keys -> NarrowedValues] :
             LET res == ParseStatus(codec.attributes, status) IN
             codec' = [op |-> "narrowed_parse", property_list |-> codec.property_list,
                       attributes |-> codec.attributes, status |-> status,
                       raised |-> res.raised, parsed |-> res.parsed]
    /\ UNCHANGED <<now, token, storage, proc, source_id, task, recvAt, devices, disc>>

\* Narrowing and parsing with the narrowed schema, call by call.
NextNarrow ==
    \/ NarrowCall
    \/ NarrowedParse
    \/ CodecReturn

SpecNarrow == InitCodec /\ [][NextNarrow]_vars

\* parse_device_status, lines 558-570: the status as the parser of the
\* device parses it, the raw status without a parser or when parsing raises
ParseDeviceStatus(device) ==
    IF device.parser = "none"
    THEN device.status
    ELSE LET res == ParseStatus(device.attributes, device.status) IN
         IF res.raised # "none" THEN device.status ELSE res.parsed

\* The state in which discovery is studied: a session that holds the record
\* of an earlier grant, and a client that has not discovered yet.
InitDiscovery ==
    /\ now = StartTime
    /\ token = [access_token |-> 1, refresh_token |-> 1, expires_in |-> ExpiresIn,
                expires_at |-> StartTime + ExpiresIn]
    /\ storage = CompleteFile(token)
    /\ proc = "running"
    /\ source_id = 0
    /\ task = [t \in Tasks |-> IdleTask]
    /\ recvAt = StartTime
    /\ devices = NoDevices
    /\ codec = NoCall
    /\ disc = NoDiscovery

\* A caller calls async_get_devices(), which requests the device list.
DiscoverCall ==
    /\ disc.pc = "idle"
    /\ disc' = [disc EXCEPT !.pc = "list_wait"]
    /\ UNCHANGED <<now, token, storage, proc, source_id, task, recvAt, devices, codec>>

\* _api_request returns the device list, or raises: lines 246-256.
DiscoverList ==
    /\ disc.pc = "list_wait"
    /\ \/ /\ disc' = [disc EXCEPT !.pc = "done", !.err = "ApiError"]
          /\ UNCHANGED devices
       \/ \E device_list \in DeviceLists :
             LET res == NextEntry([disc EXCEPT !.list = device_list,
                                              !.rest = device_list], devices) IN
             /\ disc' = res.frame
             /\ devices' = res.devices
    /\ UNCHANGED <<now, token, storage, proc, source_id, task, recvAt, codec>>

\* async_get_property_list returns or raises.
PropertiesReturn ==
    /\ disc.pc = "props_wait"
    /\ \E answer \in PropertyAnswers :
          LET res == AfterProperties(disc, devices, answer) IN
          /\ disc' = res.frame
          /\ devices' = res.devices
    /\ UNCHANGED <<now, token, storage, proc, source_id, task, recvAt, codec>>

\* async_query_static_data returns or raises: what it returns is only
\* logged, what it raises is caught at line 297.
StaticReturn ==
    /\ disc.pc = "static_wait"
    /\ \E answer \in StaticAnswers :
          LET res == StoreParser(disc, devices) IN
          /\ disc' = res.frame
          /\ devices' = res.devices
    /\ UNCHANGED <<now, token, storage, proc, source_id, task, recvAt, codec>>

\* async_get_hour_power returns or raises.
PowerReturn ==
    /\ disc.pc = "power_wait"
    /\ \E answer \in PowerAnswers :
          LET res == AfterPower(disc, devices, answer) IN
          /\ disc' = res.frame
          /\ devices' = res.devices
    /\ UNCHANGED <<now, token, storage, proc, source_id, task, recvAt, codec>>

\* async_api_self_check returns or raises.
SelfCheckReturn ==
    /\ disc.pc = "check_wait"
    /\ \E answer \in SelfCheckAnswers :
          LET res == AfterSelfCheck(disc, devices, answer) IN
          /\ disc' = res.frame
          /\ devices' = res.devices
    /\ UNCHANGED <<now, token, storage, proc, source_id, task, recvAt, codec>>

\* The caller takes the dict that async_get_devices returned, or its
\* exception.
DiscoverReturn ==
    /\ disc.pc = "done"
    /\ disc' = NoDiscovery
    /\ UNCHANGED <<now, token, storage, proc, source_id, task, recvAt, devices, codec>>

\* A caller calls parse_device_status(device) for a device of the client.
ParseDeviceCall ==
    /\ codec.op = "none"
    /\ \E id \in DOMAIN devices :
          codec' = [op |-> "parse_device", id |-> id, status |-> devices[id].status,
                    parsed |-> ParseDeviceStatus(devices[id])]
    /\ UNCHANGED <<now, token, storage, proc, source_id, task, recvAt, devices, disc>>

\* Discovery, with a caller that awaits each of its calls before it makes
\* the next: it discovers, controls a device, and reads the parsed status of
\* the devices.
NextDiscovery ==
    \/ task[1].op = "none" /\ codec.op = "none" /\ DiscoverCall
    \/ DiscoverList
    \/ PropertiesReturn
    \/ StaticReturn
    \/ PowerReturn
    \/ SelfCheckReturn
    \/ DiscoverReturn
    \/ disc.pc = "idle" /\ task[1].op = "none" /\ ParseDeviceCall
    \/ CodecReturn
    \/ disc.pc = "idle" /\ codec.op = "none" /\ ControlCall(1) /\ UNCHANGED clientVars
    \/ HttpReturn(1) /\ UNCHANGED clientVars
    \/ Return(1) /\ UNCHANGED clientVars

SpecDiscovery == InitDiscovery /\ [][NextDiscovery]_vars

\* The transport and the device client under concurrent callers.
NextApi ==
    \/ \E t \in Tasks : RequestCall(t) /\ UNCHANGED clientVars
    \/ \E t \in Tasks : ControlCall(t) /\ UNCHANGED clientVars
    \/ \E t \in Tasks : RequestRefreshed(t) /\ UNCHANGED clientVars
    \/ \E t \in Tasks : HttpReturn(t) /\ UNCHANGED clientVars
    \/ \E t \in Tasks : Return(t) /\ UNCHANGED clientVars
    \/ Tick /\ UNCHANGED clientVars
    \/ Restart /\ UNCHANGED clientVars

SpecApi == Init /\ [][NextApi]_vars

(***************************************************************************)
(* The claims.                                                             *)
(***************************************************************************)
RefreshesInFlight == {t \in Tasks : task[t].pc = "refresh_wait"}

\* C1: a call of async_ensure_token_valid() on a record whose expires_in = E
\* was received at time T sends the refresh-token grant when now >= T + E - 300
\* and sends none when now < T + E - 300: the expiry is fixed when the record
\* is received, not when it is first used.
C1_RefreshesExactlyWhenDue ==
    [][\A t \in Tasks :
         (/\ task[t].op = "none"
          /\ task'[t].op = "ensure"
          /\ Has(token, "expires_in")
          /\ Has(token, "refresh_token"))
         => ((task'[t].pc = "refresh_wait")
               <=> (now >= recvAt + token["expires_in"] - RefreshMargin))]_vars

\* C2: refreshes are serialized per session: no two refresh-token grants of
\* one OAuth2Session are in flight at the same time, so that concurrent
\* async_ensure_token_valid() calls that see the same expired record send one
\* grant.
C2_OneRefreshInFlight == Cardinality(RefreshesInFlight) <= 1

\* C3: a call of async_ensure_token_valid() whose refresh fails (the endpoint
\* refuses the grant, or the record has no refresh token) raises TokenError,
\* no step of the call changes the in-memory record or the token file, and
\* the call sends no further grant.
C3_FailedRefreshLeavesRecords ==
    [][\A t \in Tasks :
         /\ (task[t].op = "none" /\ task'[t].op = "ensure" /\ task'[t].pc = "refresh_wait")
               => (token' = token /\ storage' = storage)
         /\ (task[t].op = "ensure" /\ task[t].pc = "refresh_wait"
               /\ task'[t].pc = "done" /\ task'[t].status # 200)
               => task'[t].err = RefreshError
         /\ (task'[t].op = "ensure" /\ task[t].pc # "done"
               /\ task'[t].pc = "done" /\ task'[t].err # "none")
               => /\ IsTokenError(task'[t].err)
                  /\ token' = token
                  /\ storage' = storage
                  /\ {u \in Tasks : task'[u].pc = "refresh_wait"} \subseteq RefreshesInFlight \ {t}
      ]_vars

\* C3's case: a caller of async_ensure_token_valid() has got TokenError
\* because the token endpoint answered its grant with HTTP 401.
C3_Witness ==
    \E t \in Tasks :
       /\ task[t].op = "ensure"
       /\ task[t].pc = "done"
       /\ task[t].status = 401
       /\ task[t].err = RefreshError
       /\ DOMAIN token # {}

\* C4: a TokenError raised while a device client operation ensures the token
\* is what the operation raises to its caller (not ApiError), and no vendor
\* request is sent for the operation afterwards.
C4_TokenErrorSurfaces ==
    \A t \in Tasks :
       (task[t].op \in {"request", "control"} /\ IsTokenError(task[t].evErr))
       => /\ task[t].pc = "done"
          /\ IsTokenError(task[t].err)

\* C5: a request is sent only after an async_ensure_token_valid() of the same
\* _api_request call returned, and when there is no token record the call
\* raises the error of async_ensure_token_valid() (no credentials) without
\* sending anything.
C5_NoCredentialsSurfaces ==
    \A t \in Tasks :
       task[t].op \in {"request", "control"}
       => /\ task[t].pc = "http_wait" => task[t].stage >= 2
          /\ (task[t].pc = "done" /\ task[t].evErr = NoTokenError)
                => (task[t].err = NoTokenError /\ task[t].sent = NoRequest)

\* C6 as stated: the JSON body of a POST, over which the Digest is computed,
\* has no accessToken field.
C6_PostBodyWithoutAccessToken ==
    \A t \in Tasks :
       (task[t].pc = "http_wait" /\ task[t].sent.method = "POST")
       => (~Has(task[t].sent.body, "accessToken")
             /\ ~Has(task[t].sent.digested, "accessToken"))

\* C6 as amended: a GET carries the access token in its accessToken header
\* and not in its query, and has no body; a POST has no accessToken header,
\* its Digest is computed over the body that is sent, and that body holds the
\* accessToken field exactly when the token fetch of _get_system_parameters
\* did not raise.
C6_AccessTokenPlacement ==
    \A t \in Tasks :
       task[t].pc = "http_wait"
       => LET r == task[t].sent IN
          /\ r.method = "GET"
                => /\ ~Has(r.query, "accessToken")
                   /\ r.accessTokenHeader # 0
                   /\ r.body = EmptyDict
          /\ r.method = "POST"
                => /\ r.accessTokenHeader = 0
                   /\ r.digested = r.body
                   /\ Has(r.body, "accessToken") <=> (task[t].evErr = "none")
                   /\ Has(r.body, "accessToken") => r.body["accessToken"] \in {1, 2}

\* C6's case: a POST is in flight whose body holds the access token.
C6_Witness ==
    \E t \in Tasks :
       /\ task[t].pc = "http_wait"
       /\ task[t].sent.method = "POST"
       /\ Has(task[t].sent.body, "accessToken")

\* C7: no POST to the device-control endpoint carries a property that
\* validate_value rejects on the device's schema.
C7_ControlIsValidated ==
    \A t \in Tasks :
       (task[t].pc = "http_wait" /\ task[t].sent.endpoint = "device_control")
       => \A key \in DOMAIN task[t].sent.properties :
             ValidateValue(BaseBeanAttributes, key, task[t].sent.properties[key])

\* C8: exchange_code and login_with_password raise AuthenticationError
\* whenever the token endpoint's answer is refused, in particular whenever
\* its HTTP status is not 200.
C8_GrantFailsWithAuthenticationError ==
    \A t \in Tasks :
       (task[t].op \in {"exchange", "login"} /\ task[t].pc = "done")
       => /\ task[t].status # 200 => task[t].err = "AuthenticationError"
          /\ task[t].err # "none" => task[t].err = "AuthenticationError"

\* C9: when a grant or a refresh returns successfully, the token file holds
\* the in-memory record.
C9_SuccessIsPersisted ==
    [][\A t \in Tasks :
         (/\ task[t].pc \in {"grant_wait", "refresh_wait"}
          /\ task[t].op \in {"exchange", "login", "ensure"}
          /\ task'[t].pc = "done"
          /\ task'[t].err = "none")
         => storage' = CompleteFile(token')]_vars

\* C10: whatever happens during TokenStorage.save, a crash included, the
\* token file holds a complete record (the previous or the new one) and is
\* never empty, truncated or partial.
C10_TokenFileNeverPartial == storage.state # "partial"

\* C11: logout() leaves the session without a token record and without a
\* token file, and a session without a token record gets one only from an
\* exchange_code or login_with_password that succeeds; until then
\* async_ensure_token_valid() raises the no-token error.
C11_LogoutRemovesCredentials ==
    [][/\ Logout => (token' = EmptyDict /\ storage' = AbsentFile)
       /\ (proc = "running" /\ proc' = "running" /\ token = EmptyDict /\ token' # EmptyDict)
             => \E t \in Tasks :
                   /\ task[t].op \in {"exchange", "login"}
                   /\ task[t].pc = "grant_wait"
                   /\ task'[t].pc = "done"
                   /\ task'[t].err = "none"
      ]_vars

\* Whether the vendor's answer a is one for which _api_request returns the
\* envelope
IsEnvelope(a) ==
    a.net /\ a.status < 400 /\ a.json = "object" /\ Get(a.body, "resultCode", -1) = 0

\* C12: _api_request returns the envelope only for an HTTP answer whose body
\* is a JSON object with result code 0, and otherwise raises an error whose
\* type tells the cause: TransportError for a network failure, InvalidResponse
\* for a body that is no JSON or no object, ApiError for a non-zero result
\* code.
C12_TypedFailures ==
    \A t \in Tasks :
       (task[t].op \in {"request", "control"} /\ task[t].pc = "done"
          /\ task[t].answer # NoAnswer)
       => LET a == task[t].answer IN
          /\ (task[t].err = "none") <=> IsEnvelope(a)
          /\ ~a.net => task[t].err = "TransportError"
          /\ (a.net /\ a.status < 400 /\ a.json # "object")
                => task[t].err = "InvalidResponse"
          /\ (a.net /\ a.status < 400 /\ a.json = "object" /\ ~IsEnvelope(a))
                => task[t].err = "ApiError"

\* Whether the number x equals a literal segment or lies within an interval
\* segment, ends included, of the range
InRange(ranges, x) ==
    \E i \in 1..Len(ranges) :
       IF Len(ranges[i]) = 2
       THEN ranges[i][1] <= x /\ x <= ranges[i][2]
       ELSE x = ranges[i][1]

IsNumeric(value) == value.ty \in {"int", "float", "str"}

\* C13: validate_value returns a boolean and never raises, and returns False
\* for a key that is not in the schema, for a read-only attribute, for a
\* number outside the range, and for a value that is no key of the enum map,
\* also when the attribute has both a range and an enum map.
C13_ValidateFailsClosed ==
    codec.op = "validate"
    => LET attributes == Schemas[codec.schema] IN
       /\ codec.outcome \in {"True", "False"}
       /\ codec.key \notin DOMAIN attributes => codec.outcome = "False"
       /\ codec.key \in DOMAIN attributes
             => LET attr == attributes[codec.key] IN
                /\ attr.read_write = "R" => codec.outcome = "False"
                /\ (attr.value_range # <<>> /\ IsNumeric(codec.value)
                      /\ ~InRange(attr.value_range, codec.value.n))
                      => codec.outcome = "False"
                /\ (DOMAIN attr.value_map # {} /\ ~StrIsKeyOf(codec.value, attr.value_map))
                      => codec.outcome = "False"

\* C14: for a writable attribute with a range, validate_value accepts a
\* number exactly when it equals a literal segment or lies within an lo~hi
\* segment, ends included; for t_temp, "16~32,61~90", it accepts 16, 32, 61,
\* 90 and what lies between the ends of either interval, and rejects 33 and
\* 95.
C14_RangeSegments ==
    (/\ codec.op = "validate"
     /\ codec.key \in DOMAIN Schemas[codec.schema]
     /\ IsNumeric(codec.value))
    => LET attr == Schemas[codec.schema][codec.key]
           x == codec.value.n
       IN  /\ (attr.read_write # "R" /\ attr.value_range # <<>>)
                 => ((codec.outcome = "True") <=> InRange(attr.value_range, x))
           /\ (codec.schema = "BaseBeanParser" /\ codec.key = "t_temp")
                 => ((codec.outcome = "True")
                       <=> ((16 <= x /\ x <= 32) \/ (61 <= x /\ x <= 90)))

\* C14's case: validate_value has accepted 90, the upper end of the second
\* interval of t_temp.
C14_Witness ==
    /\ codec.op = "validate"
    /\ codec.schema = "BaseBeanParser"
    /\ codec.key = "t_temp"
    /\ codec.value = PyInt(90)
    /\ codec.outcome = "True"

\* C15: parse_status returns (it does not raise) a dict whose keys are keys
\* of the schema that the status has; a value that is a key of the
\* attribute's map is replaced by its label; otherwise the value of a Number
\* attribute is replaced by its float, and the key is left out when the value
\* has none; otherwise the value is passed through.
C15_ParseStatusPerKey ==
    codec.op = "parse"
    => LET attributes == Schemas[codec.schema] IN
       /\ codec.raised = "none"
       /\ DOMAIN codec.parsed \subseteq (DOMAIN attributes \intersect DOMAIN codec.status)
       /\ \A key \in DOMAIN attributes \intersect DOMAIN codec.status :
             LET attr == attributes[key]
                 value == codec.status[key]
             IN  IF InValueMap(value, attr.value_map)
                 THEN key \in DOMAIN codec.parsed
                      /\ codec.parsed[key] = PyLabel(attr.value_map[value.n])
                 ELSE IF attr.attr_type = "Number"
                 THEN IF IsNumeric(value)
                      THEN key \in DOMAIN codec.parsed
                           /\ codec.parsed[key] = PyFloat(value.n)
                      ELSE key \notin DOMAIN codec.parsed
                 ELSE key \in DOMAIN codec.parsed /\ codec.parsed[key] = value

\* C16: parse_status of the dict that parse_status returned returns that
\* dict: a label, which is no key of the map, is passed through.
C16_ParseStatusIdempotent ==
    codec.op = "reparse"
    => (codec.raised = "none" /\ codec.again = codec.parsed)

\* C16's case: the label "Cool" that the first parse_status substituted for
\* "2" has gone through parse_status again.
C16_Witness ==
    /\ codec.op = "reparse"
    /\ "t_work_mode" \in DOMAIN codec.status
    /\ codec.status["t_work_mode"] = PyStr(2)
    /\ "t_work_mode" \in DOMAIN codec.again
    /\ codec.again["t_work_mode"] = PyLabel("Cool")

\* C17: get_device_parser returns the entry registered for (device_type,
\* feature_code) if there is one, otherwise the entry for (device_type, "")
\* if there is one, otherwise the default bean parser for a type of its
\* list, and otherwise raises; no other entry is returned when the exact one
\* exists, and no parser is returned for a type of none of the three groups.
C17_ResolveOrder ==
    codec.op = "resolve"
    => LET exact == <<codec.device_type, codec.feature_code>>
           wildcard == <<codec.device_type, "">>
       IN  /\ exact \in DOMAIN DEVICE_PARSERS
                 => codec.outcome = DEVICE_PARSERS[exact]
           /\ (exact \notin DOMAIN DEVICE_PARSERS /\ wildcard \in DOMAIN DEVICE_PARSERS)
                 => codec.outcome = DEVICE_PARSERS[wildcard]
           /\ (exact \notin DOMAIN DEVICE_PARSERS /\ wildcard \notin DOMAIN DEVICE_PARSERS
                 /\ codec.device_type \in BeanDeviceTypes)
                 => codec.outcome = "BaseBeanParser"
           /\ (exact \notin DOMAIN DEVICE_PARSERS /\ wildcard \notin DOMAIN DEVICE_PARSERS
                 /\ codec.device_type \notin BeanDeviceTypes)
                 => codec.outcome = "ValueError"

\* C17's case: type "006" is one of the bean parser's list, and the exact
\* entry ("006", "299") was returned.
C17_Witness ==
    /\ codec.op = "resolve"
    /\ codec.device_type = "006"
    /\ codec.feature_code = "299"
    /\ codec.outcome = "PortableAC006299Parser"

\* C18: when the discovery of a response that lists the one device of type
\* "009" and feature "199" with statusList {"t_power": "1", "t_work_mode": "2"}
\* is over, it has not failed, the device is returned, the registry holds an
\* exact entry for ("009", "199") through which the parser was resolved, and
\* the parsed status of the device has the label "Cool" for t_work_mode.
C18_SplitACResolvesExactly ==
    (disc.pc = "done" /\ disc.list = <<DataSplitAC>>) =>
        /\ disc.err = "none"
        /\ disc.found = {DataSplitAC.deviceId}
        /\ <<"009", "199">> \in DOMAIN DEVICE_PARSERS
        /\ devices[DataSplitAC.deviceId].parser # "none"
        /\ ParseDeviceStatus(devices[DataSplitAC.deviceId])["t_work_mode"] = PyLabel("Cool")

\* The supported devices that a device list names, and whether every step of
\* discovery that stores the parser of an entry can go through
Listed(device_list) ==
    {device_list[i] : i \in {j \in 1..Len(device_list) :
        device_list[j].is_dict /\ device_list[j].deviceTypeCode \in SupportedDeviceTypes}}
Resolvable(device_data) ==
    /\ device_data.deviceFeatureCode # "None"
    /\ GetDeviceParser(device_data.deviceTypeCode, device_data.deviceFeatureCode) # "ValueError"

\* C19: when the discovery of a device list is over, whatever per-device
\* step failed (a sub-fetch, the resolution of the parser, an entry that is
\* malformed), discovery has not failed, it returns every supported device
\* of the list, and each of them whose own steps can go through has its
\* parser, the status of its entry and its own fault list.
C19_DiscoveryIsolatesFailures ==
    (disc.pc = "done" /\ disc.list # <<>>) =>
        /\ disc.err = "none"
        /\ disc.found = {device_data.deviceId : device_data \in Listed(disc.list)}
        /\ \A device_data \in Listed(disc.list) :
              /\ device_data.deviceId \in DOMAIN devices
              /\ \A key \in DOMAIN device_data.statusList :
                    /\ key \in DOMAIN devices[device_data.deviceId].status
                    /\ devices[device_data.deviceId].status[key] = device_data.statusList[key]
              /\ Resolvable(device_data) => devices[device_data.deviceId].parser # "none"

\* C20: a call of async_control_device that waits for the vendor has sent a
\* POST to the device-control endpoint whose body carries the puid and the
\* property map it was given, and it sends no second request; when the
\* vendor answers with result code 0 the call returns success with the
\* vendor's kvMap as status, so that a requested key which kvMap does not
\* echo is not in the status; and the step that ends the call leaves the
\* cached devices as they were.
C20_ControlReturnsKvMap ==
    [][\A t \in Tasks :
          (task[t].op = "control" /\ task[t].pc = "http_wait") =>
             /\ task[t].sent.method = "POST"
             /\ task[t].sent.endpoint = "device_control"
             /\ Has(task[t].sent.body, "puid")
             /\ Has(task[t].sent.body, "properties")
             /\ task[t].sent.properties = task[t].properties
             /\ task'[t].pc \in {"http_wait", "done"}
             /\ task'[t].pc = "done" =>
                   /\ devices' = devices
                   /\ Get(task'[t].answer.body, "resultCode", -1) = 0 =>
                         /\ task'[t].err = "none"
                         /\ task'[t].result.success
                         /\ task'[t].result.status = task'[t].answer.kvMap
                         /\ \A key \in DOMAIN task[t].properties \ DOMAIN task'[t].answer.kvMap :
                               key \notin DOMAIN task'[t].result.status
      ]_vars

\* A control call for {"t_power": 1} and another key has returned the
\* vendor's kvMap {"t_power": "1"} as status, while the cached portable AC
\* still has the t_power "0" of its discovery.
C20_Witness ==
    /\ task[1].op = "control"
    /\ task[1].pc = "done"
    /\ task[1].err = "none"
    /\ task[1].result = [success |-> TRUE, status |-> [t_power |-> PyStr(1)]]
    /\ DataPortableAC.deviceId \in DOMAIN devices
    /\ devices[DataPortableAC.deviceId].status["t_power"] = PyStr(0)

\* The keys of a narrowed parse whose values parse_status can take: every
\* value of an attribute that is no Number, and of a Number what float()
\* accepts
Parseable(attributes, status) ==
    {key \in DOMAIN status \intersect DOMAIN attributes :
        attributes[key].attr_type = "Number" => ~FloatRaises(status[key])}

C22_NarrowedSchema ==
    codec.op = "narrow"
    => LET base == BaseBeanAttributes
           narrowed == codec.attributes
       IN  /\ DOMAIN narrowed = (PropertyKeys(codec.property_list) \intersect DOMAIN base)
                                   \union {"f_power_consumption"}
           /\ \A prop \in codec.property_list :
                 prop.propertyKey \in DOMAIN base
                 => LET was == base[prop.propertyKey]
                        is == narrowed[prop.propertyKey]
                        codes == {prop.propertyValueList[i][1] :
                                    i \in {j \in 1..Len(prop.propertyValueList) :
                                              Len(prop.propertyValueList[j]) = 1}}
                    IN  /\ is.attr_type = was.attr_type
                        /\ is.read_write = was.read_write
                        /\ prop.propertyValueList # <<>>
                              => /\ is.value_range = prop.propertyValueList
                                 /\ DOMAIN is.value_map = DOMAIN was.value_map \intersect codes
                                 /\ \A k \in DOMAIN is.value_map : is.value_map[k] = was.value_map[k]
                        /\ prop.propertyValueList = <<>>
                              => /\ is.value_range = was.value_range
                                 /\ is.value_map = was.value_map
           /\ "f_power_consumption" \notin PropertyKeys(codec.property_list)
                 => narrowed["f_power_consumption"] = [attr_type |-> "Number", value_range |-> <<>>,
                                                       value_map |-> NoMap, read_write |-> "R"]

\* A schema narrowed by a list that declares three fan speeds and names a
\* property without a value list: the fan speed map has the three codes, the
\* other attribute is as in the base schema.
C22_Witness ==
    /\ codec.op = "narrow"
    /\ Property("t_fan_speed", <<<<5>>, <<7>>, <<9>>>>) \in codec.property_list
    /\ Property("f_power_consumption", <<>>) \in codec.property_list
    /\ DOMAIN codec.attributes["t_fan_speed"].value_map = {5, 7, 9}
    /\ codec.attributes["f_power_consumption"] = BaseBeanAttributes["f_power_consumption"]

\* C23: in a narrowed schema, every key of the value map of an enum
\* attribute that has a map and a range is a value of the range, also for a
\* property that is reported without a value list.
C23_MapKeysWithinRange ==
    codec.op = "narrow"
    => \A key \in DOMAIN codec.attributes :
          LET attr == codec.attributes[key] IN
          (attr.attr_type = "Enum" /\ DOMAIN attr.value_map # {} /\ attr.value_range # <<>>)
          => \A k \in DOMAIN attr.value_map : InRange(attr.value_range, k)

\* The entry of a device list for a device id
EntryOf(device_list, id) ==
    CHOOSE device_data \in Listed(device_list) : device_data.deviceId = id

\* C24: every device that a discovery returns, and every device of the
\* cache when a discovery has returned, has a parser that this discovery
\* resolved from the codes of the device's entry, so that
\* parse_device_status neither returns the raw status for want of a parser
\* nor parses with the parser of an earlier discovery.
C24_ReturnedDevicesHaveParser ==
    (disc.pc = "done" /\ disc.err = "none")
    => /\ \A id \in disc.found \union DOMAIN devices :
             /\ id \in DOMAIN devices
             /\ devices[id].parser # "none"
       /\ \A id \in disc.found : Resolvable(EntryOf(disc.list, id))

\* The step begins the processing of a device of the list: its DeviceInfo is
\* made and cached.
Placed == disc'.pc = "props_wait" /\ (disc.pc # "props_wait" \/ disc'.rest # disc.rest)

\* The cached record of every supported device of the list has the
\* statusList of its entry as status, with at most the power-consumption
\* value besides.
ReplacedByList(device_list, devs) ==
    \A device_data \in Listed(device_list) :
       /\ device_data.deviceId \in DOMAIN devs
       /\ LET status == devs[device_data.deviceId].status IN
          /\ DOMAIN status \subseteq DOMAIN device_data.statusList \union {"f_power_consumption"}
          /\ \A key \in DOMAIN device_data.statusList : status[key] = device_data.statusList[key]

\* C25: the discovery of a device list replaces the record of every device
\* of the list.  When it is over the status of each is the statusList of
\* the entry, with at most the power value of this run; the record that
\* is made for a device has an empty fault list and a status without power
\* value, and afterwards only the answer to the self check of that device
\* changes its fault list and only the answer to its power fetch adds the
\* power value.
C25_RecordsReplacedWholesale ==
    [][/\ (disc'.pc = "done" /\ disc.pc # "done" /\ disc'.list # <<>>)
             => ReplacedByList(disc'.list, devices')
       /\ Placed
             => /\ devices'[disc'.cur.deviceId].status = disc'.cur.statusList
                /\ devices'[disc'.cur.deviceId].failed_data = <<>>
       /\ \A id \in DOMAIN devices :
             (~Placed \/ id # disc'.cur.deviceId)
             => /\ devices'[id].failed_data # devices[id].failed_data
                      => (disc.pc = "check_wait" /\ id = disc.cur.deviceId)
                /\ devices'[id].status # devices[id].status
                      => /\ disc.pc = "power_wait" /\ id = disc.cur.deviceId
                         /\ devices'[id].status =
                               ("f_power_consumption" :> PyInt(5)) @@ devices[id].status
      ]_vars

\* The sourceId that a request carries: in the query of a GET, in the body
\* of a POST
SentSourceId(tk) ==
    IF tk.sent.method = "GET" THEN tk.sent.query["sourceId"] ELSE tk.sent.body["sourceId"]

\* C26: every request that is waiting for the vendor carries the source id
\* of the client, and the source id of a client, once generated, is never
\* generated again, whatever the interleaving of the requests.
C26_OneSourceId ==
    [][/\ \A t \in Tasks :
             task'[t].pc = "http_wait"
             => /\ source_id' # 0
                /\ SentSourceId(task'[t]) = source_id'
       /\ (proc = "running" /\ source_id # 0) => source_id' = source_id
      ]_vars

\* Two requests whose use of the source id overlaps: the first has read the
\* id into its parameters and waits for a token refresh, the second is
\* waiting for the vendor, and both hold the id of the client.
C26_Witness ==
    /\ task[1].pc = "refresh_wait"
    /\ task[1].stage = 2
    /\ task[1].params["sourceId"] = source_id
    /\ task[2].pc = "http_wait"
    /\ SentSourceId(task[2]) = source_id

\* C27: when the refresh-token grant of an async_ensure_token_valid is
\* answered after a logout() has emptied the token record, the call ends
\* with the record still empty and the token storage as logout() left it.
C27_LogoutIsFinal ==
    [][\A t \in Tasks :
          (/\ task[t].op = "ensure"
           /\ task[t].pc = "refresh_wait"
           /\ task'[t].pc = "done"
           /\ token = EmptyDict)
          => (token' = EmptyDict /\ storage' = storage)
      ]_vars

\* C28: a request sends at most one refresh-token grant: when the grant that
\* one of its async_ensure_token_valid calls waited for is answered, the
\* request does not go on to wait for the grant of a later one.
C28_OneRefreshPerRequest ==
    [][\A t \in Tasks :
          (/\ task[t].op \in {"request", "control"}
           /\ task[t].pc = "refresh_wait"
           /\ task'[t].pc = "refresh_wait")
          => task'[t].stage = task[t].stage
      ]_vars

\* C29: when a discovery has returned, the device cache that
\* get_device_status serves from holds exactly the supported devices of the
\* list that this discovery got.
C29_CacheIsLatestDiscovery ==
    (disc.pc = "done" /\ disc.err = "none")
    => DOMAIN devices = {device_data.deviceId : device_data \in Listed(disc.list)}

\* C30: when _check_power_consumption has looked at a device, the schema of
\* the parser that discovery stored for it has the attribute
\* f_power_consumption exactly if the type and the property list of the
\* device indicate metering.
C30_PowerAttributeFollowsMetering ==
    disc.pc \in {"power_wait", "check_wait"}
    => ("f_power_consumption" \in DOMAIN devices[disc.cur.deviceId].attributes
        <=> HasPower(disc.cur.deviceTypeCode, disc.property_list))

=============================================================================
